---------------------------- MODULE Spec2Model ----------------------------
(***************************************************************************)
(* A model of the value tree, the path navigator, the fallback merge and   *)
(* the typed accessors of package hocon (config.go).                       *)
(*                                                                         *)
(* Go strings are sequences of one-character strings, so that Split, Atoi  *)
(* and the error formats are computed character by character.  An Object   *)
(* is a Go map, i.e. a reference: an Object value is [kind |-> "Object",   *)
(* ref |-> id] and heap[id] is the map it refers to.  Every other kind is  *)
(* an immutable value.                                                     *)
(***************************************************************************)
EXTENDS Integers, Sequences, FiniteSets, TLC

VARIABLES
    heap,       \* heap[id]: the key -> Value map of the Object with that id
    configs,    \* configs[i]: the root Value of the i-th *Config
    inputs,     \* how many of the Configs the client constructed itself
    call,       \* the accessor call to make: [c |-> config, path |-> string]
    pc,         \* "idle" before the call, "resolving" during a resolution,
                \* "done" after the call
    last,       \* what the last operation returned
    frames      \* the call stack of a resolution in progress, innermost last

vars == <<heap, configs, inputs, call, pc, last, frames>>

-----------------------------------------------------------------------------
(* Bounds *)

MaxTotalEntries == 4    \* key/value entries in all constructed trees together
MaxConfigs == 3         \* Configs alive (constructed + returned by WithFallback)
MaxNavEntries == 3      \* key/value entries in the tree a path is looked up in
MaxSegments == 3        \* segments of the path of a call
MaxElems == 3           \* elements of a rendered Array, fragments of a concatenation
MaxDocEntries == 4      \* key/value entries of a document to resolve
MaxFrames == 24         \* depth of the call stack of a resolution
MaxCopyEntries == 3     \* key/value entries of a tree that is copied
MaxMutations == 1       \* assignments and deletions made after a copy

-----------------------------------------------------------------------------
(* Values *)

Integer(n)   == [kind |-> "Int", int |-> n]
String(s)    == [kind |-> "String", str |-> s]
Boolean(b)   == [kind |-> "Boolean", bool |-> b]
Float32(x)   == [kind |-> "Float32", f32 |-> x]
Float64(x)   == [kind |-> "Float64", f64 |-> x]
Duration(d)  == [kind |-> "Duration", us |-> d]
Null         == [kind |-> "Null"]
Array(es)    == [kind |-> "Array", elems |-> es]
Object(id)   == [kind |-> "Object", ref |-> id]
Substitution(path, optional) ==
    [kind |-> "Substitution", path |-> path, optional |-> optional]
\* type concatenation Array; a fragment may be nil.
concatenation(es) == [kind |-> "concatenation", elems |-> es]

\* An Object literal of the client's source text, before it is allocated.
ObjectLit(f) == [kind |-> "ObjectLit", fields |-> f]

\* The untyped nil: an absent Value, a nil error, a nil map or slice.
Nil == [kind |-> "nil"]

EmptyMap == [k \in {} |-> Nil]

ObjectType  == 0
StringType  == 1
ArrayType   == 2
NumberType  == 3
BooleanType == 4
NullType    == 5
SubstitutionType  == 6
ConcatenationType == 7

\* Value.Type()
Type(v) ==
    CASE v.kind = "Object"   -> ObjectType
      [] v.kind = "String"   -> StringType
      [] v.kind = "Array"    -> ArrayType
      [] v.kind = "Int"      -> NumberType
      [] v.kind = "Float32"  -> NumberType
      [] v.kind = "Float64"  -> NumberType
      [] v.kind = "Boolean"  -> BooleanType
      [] v.kind = "Null"     -> NullType
      [] v.kind = "Duration" -> StringType
      [] v.kind = "Substitution"  -> SubstitutionType
      [] v.kind = "concatenation" -> ConcatenationType

\* The Go type assertion value.(Object)
IsObject(v) == v.kind = "Object"

-----------------------------------------------------------------------------
(* Strings, numbers and their conversions *)

Digits == <<"0", "1", "2", "3", "4", "5", "6", "7", "8", "9">>

IsDigit(ch) == \E d \in 1..10 : Digits[d] = ch
DigitVal(ch) == (CHOOSE d \in 1..10 : Digits[d] = ch) - 1

RECURSIVE ItoaNat(_)
ItoaNat(n) ==
    IF n < 10 THEN <<Digits[n + 1]>>
    ELSE ItoaNat(n \div 10) \o <<Digits[(n % 10) + 1]>>

\* strconv.Itoa
Itoa(n) == IF n < 0 THEN <<"-">> \o ItoaNat(0 - n) ELSE ItoaNat(n)

RECURSIVE AtoiDigits(_, _)
\* The digit loop of strconv.Atoi: [ok, int].
AtoiDigits(s, n) ==
    IF s = <<>> THEN [ok |-> TRUE, int |-> n]
    ELSE IF ~ IsDigit(Head(s)) THEN [ok |-> FALSE, int |-> 0]
    ELSE AtoiDigits(Tail(s), n * 10 + DigitVal(Head(s)))

\* strconv.Atoi on a string short enough for int not to overflow: an optional
\* sign, then one digit at least, then digits only.  Returns [ok, int].
Atoi(s) ==
    IF s = <<>> THEN [ok |-> FALSE, int |-> 0]
    ELSE LET signed == Head(s) \in {"-", "+"}
             ds == IF signed THEN Tail(s) ELSE s
             r == AtoiDigits(ds, 0)
         IN  IF ds = <<>> \/ ~ r.ok THEN [ok |-> FALSE, int |-> 0]
             ELSE [ok |-> TRUE, int |-> IF Head(s) = "-" THEN 0 - r.int ELSE r.int]

\* A float is named by the decimal it is nearest to, in tenths, at its width.
GoFloat32(t) == [kind |-> "float32", tenths |-> t]
GoFloat64(t) == [kind |-> "float64", tenths |-> t]

\* float64(x) of a float32: exact, so the same number only when x is dyadic.
Widen(t) ==
    IF t % 5 = 0 THEN GoFloat64(t) ELSE [kind |-> "float64", of32 |-> t]

\* float32(x) of a float64: the float32 nearest to the same decimal.
Narrow(t) == GoFloat32(t)

RECURSIVE ParseFrac(_, _, _)
\* Digits after the point: [ok, tenths]; more than one digit is beyond the
\* tenths the model names, except for trailing zeros.
ParseFrac(s, t, pos) ==
    IF s = <<>> THEN [ok |-> TRUE, tenths |-> t]
    ELSE IF ~ IsDigit(Head(s)) THEN [ok |-> FALSE, tenths |-> 0]
    ELSE IF pos = 1 THEN ParseFrac(Tail(s), t + DigitVal(Head(s)), 2)
    ELSE IF DigitVal(Head(s)) = 0 THEN ParseFrac(Tail(s), t, pos + 1)
    ELSE [ok |-> FALSE, tenths |-> 0]

RECURSIVE ParseMantissa(_, _, _)
\* Digits before the point, then the fraction.  seen: a digit was read.
ParseMantissa(s, n, seen) ==
    IF s = <<>> THEN [ok |-> seen, tenths |-> n * 10]
    ELSE IF IsDigit(Head(s)) THEN ParseMantissa(Tail(s), n * 10 + DigitVal(Head(s)), TRUE)
    ELSE IF Head(s) = "."
         THEN LET f == ParseFrac(Tail(s), n * 10, 1)
              IN  [ok |-> f.ok /\ (seen \/ Tail(s) # <<>>), tenths |-> f.tenths]
    ELSE [ok |-> FALSE, tenths |-> 0]

\* strconv.ParseFloat on the decimal strings of the model (sign, digits, one
\* point; no exponent, no hex, no inf or nan): [ok, tenths].
ParseFloat(s) ==
    IF s = <<>> THEN [ok |-> FALSE, tenths |-> 0]
    ELSE LET signed == Head(s) \in {"-", "+"}
             r == ParseMantissa(IF signed THEN Tail(s) ELSE s, 0, FALSE)
         IN  IF ~ r.ok THEN [ok |-> FALSE, tenths |-> 0]
             ELSE [ok |-> TRUE,
                   tenths |-> IF Head(s) = "-" THEN 0 - r.tenths ELSE r.tenths]

RECURSIVE TrimZeros(_)
\* The digits without their trailing zeros (one digit is kept).
TrimZeros(ds) ==
    IF Len(ds) > 1 /\ ds[Len(ds)] = "0" THEN TrimZeros(SubSeq(ds, 1, Len(ds) - 1))
    ELSE ds

\* strconv.FormatFloat(f, 'e', -1, bits) of the float nearest t/10: the
\* shortest digits d.ddd, then e, a sign and two exponent digits at least.
FormatFloat(t) ==
    LET a == IF t < 0 THEN 0 - t ELSE t
        all == ItoaNat(a)
        ds == TrimZeros(all)
        e == IF a = 0 THEN 0 ELSE Len(all) - 2
        ea == IF e < 0 THEN 0 - e ELSE e
    IN  (IF t < 0 THEN <<"-">> ELSE <<>>)
        \o <<Head(ds)>>
        \o (IF Len(ds) > 1 THEN <<".">> \o Tail(ds) ELSE <<>>)
        \o <<"e", IF e < 0 THEN "-" ELSE "+">>
        \o (IF ea < 10 THEN <<"0">> ELSE <<>>) \o ItoaNat(ea)

\* strconv.FormatBool
FormatBool(b) == IF b THEN <<"t", "r", "u", "e">> ELSE <<"f", "a", "l", "s", "e">>

\* const null Null = "null"
null == <<"n", "u", "l", "l">>

\* A Duration is held in microseconds: nanoseconds exceed the 32-bit integers
\* of TLC.
Microsecond == 1
Millisecond == 1000 * Microsecond
Second == 1000 * Millisecond

\* time.Duration.Milliseconds: the whole milliseconds, truncated towards zero.
Milliseconds(d) == IF d < 0 THEN 0 - ((0 - d) \div Millisecond) ELSE d \div Millisecond

RECURSIVE ZeroPad(_, _)
ZeroPad(ds, width) == IF Len(ds) >= width THEN ds ELSE ZeroPad(<<"0">> \o ds, width)

\* fmtFrac: the fraction rem / 10^prec as ".ddd" without trailing zeros,
\* nothing when it is zero.
fmtFrac(rem, prec) ==
    IF rem = 0 THEN <<>>
    ELSE <<".">> \o TrimZeros(ZeroPad(ItoaNat(rem), prec))

\* time.Duration.String of a non-negative duration.
DurationString(d) ==
    LET secs == d \div Second
        h == secs \div 3600
        m == (secs \div 60) % 60
    IN  IF d = 0 THEN <<"0", "s">>
        ELSE IF d < Millisecond THEN ItoaNat(d) \o <<"u", "s">>   \* the micro sign, written u
        ELSE IF d < Second
             THEN ItoaNat(d \div Millisecond) \o fmtFrac(d % Millisecond, 3)
                  \o <<"m", "s">>
        ELSE (IF h > 0 THEN ItoaNat(h) \o <<"h">> ELSE <<>>)
             \o (IF h > 0 \/ m > 0 THEN ItoaNat(m) \o <<"m">> ELSE <<>>)
             \o ItoaNat(secs % 60) \o fmtFrac(d % Second, 6) \o <<"s">>

RECURSIVE EscapeJson(_)
\* The escaping of encoding/json with SetEscapeHTML(false), for the printable
\* ASCII of the model: only the quote and the backslash are escaped.
EscapeJson(s) ==
    IF s = <<>> THEN <<>>
    ELSE (IF Head(s) \in {"\"", "\\"} THEN <<"\\", Head(s)>> ELSE <<Head(s)>>)
         \o EscapeJson(Tail(s))

\* jsonMarshal of a Go string: the encoder's output without its newline.
jsonMarshal(s) == <<"\"">> \o EscapeJson(s) \o <<"\"">>

-----------------------------------------------------------------------------
(* Construction of a tree from a literal: every Object literal becomes a   *)
(* fresh map, at every depth and inside Arrays too.                        *)

RECURSIVE Alloc(_, _), AllocFields(_, _, _, _), AllocElems(_, _, _)

\* Returns [heap, val].
Alloc(h, t) ==
    CASE t.kind = "ObjectLit" ->
            LET h1 == Append(h, EmptyMap)
                id == Len(h1)
            IN  [heap |-> AllocFields(h1, id, t.fields, DOMAIN t.fields),
                 val  |-> Object(id)]
      [] t.kind = "Array" ->
            LET r == AllocElems(h, t.elems, <<>>)
            IN  [heap |-> r.heap, val |-> Array(r.elems)]
      [] t.kind = "concatenation" ->
            LET r == AllocElems(h, t.elems, <<>>)
            IN  [heap |-> r.heap, val |-> concatenation(r.elems)]
      [] OTHER -> [heap |-> h, val |-> t]

AllocFields(h, id, f, ks) ==
    IF ks = {} THEN h
    ELSE LET k == CHOOSE x \in ks : TRUE
             r == Alloc(h, f[k])
             h2 == [r.heap EXCEPT ![id] = @ @@ (k :> r.val)]
         IN  AllocFields(h2, id, f, ks \ {k})

AllocElems(h, es, acc) ==
    IF es = <<>> THEN [heap |-> h, elems |-> acc]
    ELSE LET r == Alloc(h, Head(es))
         IN  AllocElems(r.heap, Tail(es), Append(acc, r.val))

RECURSIVE AllocAll(_, _, _)
\* Returns [heap, configs]: one *Config per literal of ts.
AllocAll(h, cs, ts) ==
    IF ts = <<>> THEN [heap |-> h, configs |-> cs]
    ELSE LET r == Alloc(h, Head(ts))
         IN  AllocAll(r.heap, Append(cs, r.val), Tail(ts))

\* The tree a Value stands for: the maps it reaches, read through the heap.
RECURSIVE TreeOf(_, _)
TreeOf(h, v) ==
    CASE v.kind = "Object" ->
            ObjectLit([k \in DOMAIN h[v.ref] |-> TreeOf(h, h[v.ref][k])])
      [] v.kind = "Array" ->
            Array([i \in 1..Len(v.elems) |-> TreeOf(h, v.elems[i])])
      [] v.kind = "concatenation" ->
            concatenation([i \in 1..Len(v.elems) |-> TreeOf(h, v.elems[i])])
      [] OTHER -> v

-----------------------------------------------------------------------------
(* Object.copy and the merge *)

RECURSIVE copy(_, _), copyKeys(_, _, _, _)

RECURSIVE KeysOf(_)
\* The keys of a map in some order.
KeysOf(m) ==
    IF DOMAIN m = {} THEN <<>>
    ELSE LET k == CHOOSE x \in DOMAIN m : TRUE
         IN  <<k>> \o KeysOf([x \in DOMAIN m \ {k} |-> m[x]])

\* copy without the recursion into nested Objects: result[k] = v for every k.
copyShallow(h, o) ==
    [heap |-> Append(h, h[o]), ref |-> Len(h) + 1]

\* copy that duplicates the Objects under the keys of o but gives them the
\* values of theirs as they are: result[k][j] = o[k][j].
copyOneLevel(h, o) ==
    LET ks == KeysOf(h[o])
        kids == SelectSeq(ks, LAMBDA k : IsObject(h[o][k]))
        at(k) == CHOOSE i \in DOMAIN kids : kids[i] = k
        result == Len(h) + 1
    IN  [heap |-> (Append(h, [k \in DOMAIN h[o] |->
                                 IF IsObject(h[o][k]) THEN Object(result + at(k))
                                 ELSE h[o][k]])
                   \o [i \in DOMAIN kids |-> h[h[o][kids[i]].ref]]),
         ref |-> result]

\* func (o Object) copy() Object.  Returns [heap, ref].
copy(h, o) ==
    LET h1 == Append(h, EmptyMap)
        result == Len(h1)
    IN  [heap |-> copyKeys(h1, o, result, DOMAIN h[o]), ref |-> result]

\* The loop of copy over the keys not yet visited.
copyKeys(h, o, result, ks) ==
    IF ks = {} THEN h
    ELSE LET k == CHOOSE x \in ks : TRUE
             v == h[o][k]
         IN  IF IsObject(v)
             THEN LET r == copy(h, v.ref)
                  IN  copyKeys([r.heap EXCEPT ![result] = @ @@ (k :> Object(r.ref))],
                               o, result, ks \ {k})
             ELSE copyKeys([h EXCEPT ![result] = @ @@ (k :> v)],
                           o, result, ks \ {k})

\* Map assignment m[k] = v.
Put(m, k, v) == [x \in DOMAIN m \cup {k} |-> IF x = k THEN v ELSE m[x]]

RECURSIVE mergeObjects(_, _, _, _)
\* mergeObjects(existing, new): merges new into existing, in place.
\* ks: the keys of new not yet visited.  Returns the heap.
mergeObjects(h, existing, new, ks) ==
    IF ks = {} THEN h
    ELSE LET k == CHOOSE x \in ks : TRUE
             value == h[new][k]
         IN  IF /\ k \in DOMAIN h[existing]
                /\ IsObject(h[existing][k])
                /\ IsObject(value)
             THEN mergeObjects(
                      mergeObjects(h, h[existing][k].ref, value.ref,
                                   DOMAIN h[value.ref]),
                      existing, new, ks \ {k})
             ELSE mergeObjects([h EXCEPT ![existing] = Put(@, k, value)],
                               existing, new, ks \ {k})

\* WithFallback with the roles exchanged: the fallback's values win.
WithFallbackSwapped(h, cs, c, fallback) ==
    IF IsObject(cs[c]) /\ IsObject(cs[fallback])
    THEN LET r == copy(h, cs[c].ref)
             h2 == mergeObjects(r.heap, r.ref, cs[fallback].ref,
                                DOMAIN r.heap[cs[fallback].ref])
         IN  [heap |-> h2, configs |-> Append(cs, Object(r.ref)),
              result |-> Len(cs) + 1]
    ELSE [heap |-> h, configs |-> cs, result |-> c]

\* WithFallback that hands out the fallback when the merge does not apply.
WithFallbackReturnsFallback(h, cs, c, fallback) ==
    IF IsObject(cs[c]) /\ IsObject(cs[fallback])
    THEN LET r == copy(h, cs[fallback].ref)
             h2 == mergeObjects(r.heap, r.ref, cs[c].ref, DOMAIN r.heap[cs[c].ref])
         IN  [heap |-> h2, configs |-> Append(cs, Object(r.ref)),
              result |-> Len(cs) + 1]
    ELSE [heap |-> h, configs |-> cs, result |-> fallback]

\* func (c *Config) WithFallback(fallback *Config) *Config
\* Returns [heap, configs, result]: result is the index of the returned
\* *Config, which is c itself when the fallback is not used.
WithFallback(h, cs, c, fallback) ==
    IF IsObject(cs[c]) /\ IsObject(cs[fallback])
    THEN LET r == copy(h, cs[fallback].ref)
             h2 == mergeObjects(r.heap, r.ref, cs[c].ref, DOMAIN r.heap[cs[c].ref])
         IN  [heap |-> h2, configs |-> Append(cs, Object(r.ref)),
              result |-> Len(cs) + 1]
    ELSE [heap |-> h, configs |-> cs, result |-> c]

-----------------------------------------------------------------------------
(* Inputs of the fallback specification *)

ka == <<"a">>
kb == <<"b">>
Keys == {ka, kb}

FallbackLeaves ==
    { Integer(1), Array(<<Integer(2), ObjectLit(ka :> Integer(1))>>) }

RECURSIVE Entries(_), SumEntries(_, _)
\* Number of key/value entries of a literal, nested Objects included.
Entries(t) ==
    CASE t.kind = "ObjectLit" ->
            Cardinality(DOMAIN t.fields) + SumEntries(t.fields, DOMAIN t.fields)
      [] t.kind = "Array" -> SumEntries(t.elems, DOMAIN t.elems)
      [] OTHER -> 0
SumEntries(f, ks) ==
    IF ks = {} THEN 0
    ELSE LET k == CHOOSE x \in ks : TRUE
         IN  Entries(f[k]) + SumEntries(f, ks \ {k})

\* The Object literals over Keys and leaves with at most n entries.
RECURSIVE ObjectLits(_, _)
ObjectLits(leaves, n) ==
    IF n = 0 THEN { ObjectLit(EmptyMap) }
    ELSE LET sub == leaves \cup ObjectLits(leaves, n - 1)
         IN  { t \in { ObjectLit(f) : f \in UNION { [S -> sub] : S \in SUBSET Keys } } :
                 Entries(t) <= n }

FallbackRoots == FallbackLeaves \cup ObjectLits(FallbackLeaves, MaxTotalEntries)

\* What the client constructs: a receiver alone, or a receiver and a fallback.
FallbackInputs ==
    { <<o>> : o \in FallbackRoots } \cup
    UNION { { <<o, f>> : f \in { r \in FallbackRoots :
                                  Entries(o) + Entries(r) <= MaxTotalEntries } } :
            o \in FallbackRoots }

NoCall == [c |-> 0, path |-> <<>>]
NoResult == [op |-> "none"]

InitFallback ==
    \E ts \in FallbackInputs :
        LET r == AllocAll(<<>>, <<>>, ts)
        IN  /\ heap = r.heap
            /\ configs = r.configs
            /\ inputs = Len(ts)
            /\ call = NoCall
            /\ pc = "idle"
            /\ last = NoResult
            /\ frames = <<>>

DoWithFallback ==
    \E c \in 1..Len(configs), f \in 1..Len(configs) :
        LET r == WithFallback(heap, configs, c, f)
        IN  /\ Len(r.configs) <= MaxConfigs
            /\ heap' = r.heap
            /\ configs' = r.configs
            /\ last' = [op |-> "WithFallback", c |-> c, fallback |-> f,
                        result |-> r.result]
            /\ UNCHANGED <<inputs, call, pc, frames>>

NextFallback == DoWithFallback

SpecFallback == InitFallback /\ [][NextFallback]_vars

-----------------------------------------------------------------------------
(* The fallback merge: C1, C2, C3 *)

IsLit(t) == t.kind = "ObjectLit"

\* r is the merge of the override tree o over the base tree f.
RECURSIVE IsMergeOf(_, _, _)
IsMergeOf(r, o, f) ==
    /\ IsLit(r)
    /\ DOMAIN r.fields = DOMAIN o.fields \cup DOMAIN f.fields
    /\ \A k \in DOMAIN r.fields :
          IF k \in DOMAIN o.fields
          THEN IF k \in DOMAIN f.fields /\ IsLit(o.fields[k]) /\ IsLit(f.fields[k])
               THEN IsMergeOf(r.fields[k], o.fields[k], f.fields[k])
               ELSE r.fields[k] = o.fields[k]
          ELSE r.fields[k] = f.fields[k]

\* The step is a call of WithFallback on two Object roots.
MergingCall ==
    /\ last'.op = "WithFallback"
    /\ IsObject(configs[last'.c])
    /\ IsObject(configs[last'.fallback])

\* The step is a call of WithFallback on a root that is not an Object.
IgnoringCall ==
    /\ last'.op = "WithFallback"
    /\ ~ (IsObject(configs[last'.c]) /\ IsObject(configs[last'.fallback]))

\* C1: the root of O.WithFallback(F) has the keys of O and of F; a key whose
\* two values are Objects holds their recursive merge, any other key of O
\* holds O's value, a key of F alone holds F's value.
C1_WithFallbackMerges ==
    [][ MergingCall =>
          IsMergeOf(TreeOf(heap', configs'[last'.result]),
                    TreeOf(heap, configs[last'.c]),
                    TreeOf(heap, configs[last'.fallback])) ]_vars

\* A call has merged two roots that share a key holding an Object in both,
\* and the merged Object has keys of the one and keys of the other.
C1_Witness ==
    /\ last.op = "WithFallback"
    /\ last.result = Len(configs)
    /\ last.c # last.fallback
    /\ IsObject(configs[last.c]) /\ IsObject(configs[last.fallback])
    /\ LET o == heap[configs[last.c].ref]
           f == heap[configs[last.fallback].ref]
           r == heap[configs[last.result].ref]
       IN  \E k \in DOMAIN o \cap DOMAIN f :
              /\ IsObject(o[k]) /\ IsObject(f[k])
              /\ DOMAIN heap[r[k].ref] # DOMAIN heap[o[k].ref]
              /\ DOMAIN heap[r[k].ref] # DOMAIN heap[f[k].ref]

\* C2: WithFallback on a receiver or a fallback whose root is not an Object
\* returns the receiver itself and changes nothing.
C2_WithFallbackNoOp ==
    [][ IgnoringCall =>
          /\ last'.result = last'.c
          /\ configs' = configs
          /\ heap' = heap ]_vars

\* Both no-op cases have happened: here the one the last call was.
C2_Witness ==
    /\ last.op = "WithFallback"
    /\ last.result = last.c
    /\ last.c # last.fallback
    /\ ~ IsObject(configs[last.c])
    /\ IsObject(configs[last.fallback])

\* C3: a call of WithFallback leaves every map that existed before it, and so
\* the tree of every Config at every depth, as it was.
C3_WithFallbackKeepsInputs ==
    [][ last'.op = "WithFallback" =>
          /\ \A id \in 1..Len(heap) : heap'[id] = heap[id]
          /\ \A i \in 1..Len(configs) :
                TreeOf(heap', configs'[i]) = TreeOf(heap, configs[i]) ]_vars

\* A merge whose receiver or fallback is itself the result of an earlier
\* merge has recursed into an Object the two roots share.
C3_Witness ==
    /\ last.op = "WithFallback"
    /\ last.result = Len(configs)
    /\ last.result > inputs
    /\ last.c > inputs \/ last.fallback > inputs
    /\ IsObject(configs[last.c]) /\ IsObject(configs[last.fallback])
    /\ LET o == heap[configs[last.c].ref]
           f == heap[configs[last.fallback].ref]
       IN  \E k \in DOMAIN o \cap DOMAIN f :
              /\ IsObject(o[k]) /\ IsObject(f[k])
              /\ DOMAIN heap[o[k].ref] # {}

-----------------------------------------------------------------------------
(* Rendering: Value.String and Value.Json *)

\* The order in which a range over a map visits the keys is not fixed: ord[id]
\* lists the keys in the order the map with that id is ranged over.
KeyOrders ==
    { o \in [1..Cardinality(Keys) -> Keys] : \A i, j \in DOMAIN o : o[i] = o[j] => i = j }

RangeOver(h, id, ord) == SelectSeq(ord[id], LAMBDA k : k \in DOMAIN h[id])

RECURSIVE MapsOf(_, _)
\* The maps a rendering of v ranges over: those of the Objects in v.
MapsOf(h, v) ==
    CASE v = Nil -> {}
      [] v # Nil /\ v.kind = "Object" ->
            {v.ref} \cup UNION { MapsOf(h, h[v.ref][k]) : k \in DOMAIN h[v.ref] }
      [] v # Nil /\ v.kind \in {"Array", "concatenation"} ->
            UNION { MapsOf(h, v.elems[i]) : i \in DOMAIN v.elems }
      [] OTHER -> {}

RECURSIVE Json(_, _, _), ObjectJsonLoop(_, _, _, _, _), ArrayJsonLoop(_, _, _)
RECURSIVE ValueString(_, _, _), concatenationString(_, _, _)

\* The loop of Object.Json: ks are the keys not yet written, i counts them.
ObjectJsonLoop(h, id, ord, ks, i) ==
    IF ks = <<>> THEN <<>>
    ELSE jsonMarshal(Head(ks)) \o <<":">>
         \o Json(h, h[id][Head(ks)], ord)
         \o (IF i < Cardinality(DOMAIN h[id]) THEN <<",", " ">> ELSE <<>>)
         \o ObjectJsonLoop(h, id, ord, Tail(ks), i + 1)

\* Object.Json that writes the separator after every pair, the last too.
ObjectJsonTrailing(h, id, ord) ==
    <<"{">> \o ObjectJsonLoop(h, id, ord, RangeOver(h, id, ord), 1)
    \o (IF DOMAIN h[id] # {} THEN <<",", " ">> ELSE <<>>) \o <<"}">>

\* func (o Object) Json() string
ObjectJson(h, id, ord) ==
    <<"{">> \o ObjectJsonLoop(h, id, ord, RangeOver(h, id, ord), 1) \o <<"}">>

\* The loop of Array.Json over a[1:].
ArrayJsonLoop(h, es, ord) ==
    IF es = <<>> THEN <<>>
    ELSE <<",">> \o Json(h, Head(es), ord) \o ArrayJsonLoop(h, Tail(es), ord)

\* func (a Array) Json() string
ArrayJson(h, es, ord) ==
    IF Len(es) = 0 THEN <<"[", "]">>
    ELSE <<"[">> \o Json(h, es[1], ord) \o ArrayJsonLoop(h, Tail(es), ord) \o <<"]">>

RECURSIVE TrimLeft(_, _), TrimRight(_, _)
\* strings.TrimLeft and strings.TrimRight with a cutset of one character.
TrimLeft(s, cut) ==
    IF s # <<>> /\ Head(s) = cut THEN TrimLeft(Tail(s), cut) ELSE s
TrimRight(s, cut) ==
    IF s # <<>> /\ s[Len(s)] = cut THEN TrimRight(SubSeq(s, 1, Len(s) - 1), cut) ELSE s

\* Trim that removes the character wherever it stands, as ReplaceAll would.
TrimEvery(s, cut) == SelectSeq(s, LAMBDA ch : ch # cut)

\* strings.Trim(s, cutset) with a cutset of one character.
Trim(s, cut) == TrimRight(TrimLeft(s, cut), cut)

\* func (s *Substitution) String() string
SubstitutionString(v) ==
    <<"$", "{">> \o (IF v.optional THEN <<"?">> ELSE <<>>) \o v.path \o <<"}">>

\* func (c concatenation) String() string: the loop over the fragments es.
concatenationString(h, es, ord) ==
    IF es = <<>> THEN <<>>
    ELSE (IF Head(es) # Nil THEN Trim(ValueString(h, Head(es), ord), "\"") ELSE <<>>)
         \o concatenationString(h, Tail(es), ord)

\* containsObject that looks at the first fragment only.
containsObjectFirst(es) ==
    es # <<>> /\ es[1] # Nil /\ Type(es[1]) = ObjectType

\* func (c concatenation) containsObject() bool
containsObject(es) ==
    \E i \in DOMAIN es : es[i] # Nil /\ Type(es[i]) = ObjectType

\* Value.String() of the kinds that are not containers.
ScalarString(v) ==
    CASE v.kind = "String"   -> v.str
      [] v.kind = "Int"      -> Itoa(v.int)
      [] v.kind = "Float32"  -> FormatFloat(v.f32)
      [] v.kind = "Float64"  -> FormatFloat(v.f64)
      [] v.kind = "Boolean"  -> FormatBool(v.bool)
      [] v.kind = "Null"     -> null
      [] v.kind = "Duration" -> DurationString(v.us)
      [] v.kind = "Substitution" -> SubstitutionString(v)

\* Value.Json()
Json(h, v, ord) ==
    CASE v.kind = "Object"   -> ObjectJson(h, v.ref, ord)
      [] v.kind = "Array"    -> ArrayJson(h, v.elems, ord)
      [] v.kind = "String"   -> jsonMarshal(v.str)
      [] v.kind = "Float32"  -> <<"\"">> \o ScalarString(v) \o <<"\"">>
      [] v.kind = "Float64"  -> <<"\"">> \o ScalarString(v) \o <<"\"">>
      [] v.kind = "Duration" -> Itoa(Milliseconds(v.us))
      [] v.kind = "Substitution"  -> jsonMarshal(SubstitutionString(v))
      [] v.kind = "concatenation" -> jsonMarshal(concatenationString(h, v.elems, ord))
      [] OTHER               -> ScalarString(v)

\* Value.String(): Object.String and Array.String are their Json.
ValueString(h, v, ord) ==
    CASE v.kind \in {"Object", "Array"} -> Json(h, v, ord)
      [] v.kind = "concatenation" -> concatenationString(h, v.elems, ord)
      [] OTHER -> ScalarString(v)

-----------------------------------------------------------------------------
(* The path navigator and the accessors *)

dotToken == "."

RECURSIVE SplitLoop(_, _, _)
SplitLoop(s, cur, acc) ==
    IF s = <<>> THEN Append(acc, cur)
    ELSE IF Head(s) = dotToken THEN SplitLoop(Tail(s), <<>>, Append(acc, cur))
    ELSE SplitLoop(Tail(s), Append(cur, Head(s)), acc)

\* strings.Split(path, dotToken): one segment more than there are dots.
Split(path) == SplitLoop(path, <<>>, <<>>)

\* What a call hands back: a panic that unwinds to the caller of the package,
\* or the returned value and error (Nil for no error).
Panics == [panic |-> TRUE]
Returns(v, e) == [panic |-> FALSE, val |-> v, err |-> e]

\* fmt.Errorf(format, path)
Errorf(format, path) == [kind |-> "error", format |-> format, arg |-> path]

NotFound(path) == Errorf("config value not found at path: %s", path)

GoInt(n)         == [kind |-> "int", int |-> n]
GoBool(b)        == [kind |-> "bool", bool |-> b]
GoString(s)      == [kind |-> "string", str |-> s]
GoDuration(d)    == [kind |-> "time.Duration", us |-> d]
GoIntSlice(es)   == [kind |-> "[]int", elems |-> es]
GoStringSlice(es) == [kind |-> "[]string", elems |-> es]
GoStringMap(m)   == [kind |-> "map[string]string", fields |-> m]
GoConfig(root)   == [kind |-> "*Config", root |-> root]

RECURSIVE findLoop(_, _, _, _)
\* The loop of find over keysWithoutLast, then the lookup of lastKey.
findLoop(h, object, keysWithoutLast, lastKey) ==
    IF keysWithoutLast = <<>>
    THEN Returns(IF lastKey \in DOMAIN h[object] THEN h[object][lastKey] ELSE Nil, Nil)
    ELSE LET key == Head(keysWithoutLast)
         IN  IF key \notin DOMAIN h[object] THEN Returns(Nil, Nil)
             ELSE IF ~ IsObject(h[object][key]) THEN Panics
             ELSE findLoop(h, h[object][key].ref, Tail(keysWithoutLast), lastKey)

\* find that looks the whole path up as one key of o.
findWholePath(h, o, path) ==
    Returns(IF path \in DOMAIN h[o] THEN h[o][path] ELSE Nil, Nil)

\* func (o Object) find(path string) Value
find(h, o, path) ==
    LET keys == Split(path)
        size == Len(keys)
    IN  findLoop(h, o, SubSeq(keys, 1, size - 1), keys[size])

\* func (c *Config) Get(path string) Value
Get(h, root, path) ==
    IF Type(root) # ObjectType THEN Returns(Nil, Nil)
    ELSE find(h, root.ref, path)

\* func (c *Config) GetObject(path string) (Object, error)
GetObject(h, root, path) ==
    LET g == Get(h, root, path)
    IN  IF g.panic THEN Panics
        ELSE IF g.val = Nil THEN Returns(Nil, NotFound(path))
        ELSE IF ~ IsObject(g.val)
             THEN Returns(Nil, Errorf("config value at path: %s is not an object", path))
        ELSE Returns(g.val, Nil)

\* func (c *Config) GetConfig(path string) (*Config, error)
GetConfig(h, root, path) ==
    LET r == GetObject(h, root, path)
    IN  IF r.panic THEN Panics
        ELSE IF r.err # Nil THEN Returns(Nil, r.err)
        ELSE Returns(GoConfig(r.val), Nil)

\* func (c *Config) GetStringMap(path string) (map[string]Value, error)
GetStringMap(h, root, path) == GetObject(h, root, path)

\* func (c *Config) GetStringMapString(path string) (map[string]string, error)
GetStringMapString(h, root, path, ord) ==
    LET g == Get(h, root, path)
    IN  IF g.panic THEN Panics
        ELSE IF g.val = Nil THEN Returns(Nil, NotFound(path))
        ELSE IF ~ IsObject(g.val)
             THEN Returns(Nil, Errorf("config value at path: %s is not an object", path))
        ELSE Returns(GoStringMap([k \in DOMAIN h[g.val.ref] |->
                                     ValueString(h, h[g.val.ref][k], ord)]), Nil)

\* func (c *Config) GetArray(path string) (Array, error)
GetArray(h, root, path) ==
    LET g == Get(h, root, path)
    IN  IF g.panic THEN Panics
        ELSE IF g.val = Nil THEN Returns(Nil, NotFound(path))
        ELSE IF g.val.kind # "Array"
             THEN Returns(Nil, Errorf("config value at path: %s is not an array", path))
        ELSE Returns(g.val, Nil)

\* GetIntSlice that hands out the integers read before the element that is
\* not one, together with the error.
GetIntSlicePartial(h, root, path) ==
    LET g == Get(h, root, path)
        notInts == Errorf("config value at path: %s is not an array of integers", path)
    IN  IF g.panic THEN Panics
        ELSE IF g.val = Nil THEN Returns(Nil, NotFound(path))
        ELSE IF g.val.kind # "Array" THEN Returns(Nil, notInts)
        ELSE LET es == g.val.elems
                 bad == { i \in DOMAIN es : es[i].kind # "Int" }
                 first == CHOOSE i \in bad : \A j \in bad : i <= j
             IN  IF bad # {}
                 THEN Returns(GoIntSlice([i \in 1..(first - 1) |-> es[i].int]), notInts)
                 ELSE Returns(GoIntSlice([i \in DOMAIN es |-> es[i].int]), Nil)

\* func (c *Config) GetIntSlice(path string) ([]int, error)
GetIntSlice(h, root, path) ==
    LET g == Get(h, root, path)
        notInts == Errorf("config value at path: %s is not an array of integers", path)
    IN  IF g.panic THEN Panics
        ELSE IF g.val = Nil THEN Returns(Nil, NotFound(path))
        ELSE IF g.val.kind # "Array" THEN Returns(Nil, notInts)
        ELSE IF \E i \in DOMAIN g.val.elems : g.val.elems[i].kind # "Int"
             THEN Returns(Nil, notInts)
        ELSE Returns(GoIntSlice([i \in DOMAIN g.val.elems |-> g.val.elems[i].int]), Nil)

\* func (c *Config) GetStringSlice(path string) ([]string, error)
GetStringSlice(h, root, path, ord) ==
    LET g == Get(h, root, path)
    IN  IF g.panic THEN Panics
        ELSE IF g.val = Nil THEN Returns(Nil, NotFound(path))
        ELSE IF g.val.kind # "Array"
             THEN Returns(Nil, Errorf("config value at path: %s is not an array", path))
        ELSE Returns(GoStringSlice([i \in DOMAIN g.val.elems |->
                                       ValueString(h, g.val.elems[i], ord)]), Nil)

\* func (c *Config) GetString(path string) (string, error)
GetString(h, root, path, ord) ==
    LET g == Get(h, root, path)
    IN  IF g.panic THEN Panics
        ELSE IF g.val = Nil THEN Returns(GoString(<<>>), NotFound(path))
        ELSE Returns(GoString(ValueString(h, g.val, ord)), Nil)

\* GetInt without the conversion of a String.
GetIntOfIntOnly(h, root, path) ==
    LET g == Get(h, root, path)
    IN  IF g.panic THEN Panics
        ELSE IF g.val = Nil THEN Returns(GoInt(0), NotFound(path))
        ELSE IF g.val.kind = "Int" THEN Returns(GoInt(g.val.int), Nil)
        ELSE Returns(GoInt(0), Errorf("cannot parse value: %s to int", path))

\* func (c *Config) GetInt(path string) (int, error)
GetInt(h, root, path) ==
    LET g == Get(h, root, path)
        cannot == Errorf("cannot parse value: %s to int", path)
    IN  IF g.panic THEN Panics
        ELSE IF g.val = Nil THEN Returns(GoInt(0), NotFound(path))
        ELSE CASE g.val.kind = "Int" -> Returns(GoInt(g.val.int), Nil)
               [] g.val.kind = "String" ->
                    LET a == Atoi(g.val.str)
                    IN  IF ~ a.ok THEN Returns(GoInt(0), cannot)
                        ELSE Returns(GoInt(a.int), Nil)
               [] OTHER -> Returns(GoInt(0), cannot)

\* func (c *Config) GetFloat32(path string) (float32, error)
GetFloat32(h, root, path) ==
    LET g == Get(h, root, path)
        cannot == Errorf("cannot parse value: %s to float32", path)
    IN  IF g.panic THEN Panics
        ELSE IF g.val = Nil THEN Returns(GoFloat32(0), NotFound(path))
        ELSE CASE g.val.kind = "Float32" -> Returns(GoFloat32(g.val.f32), Nil)
               [] g.val.kind = "Float64" -> Returns(Narrow(g.val.f64), Nil)
               [] g.val.kind = "String" ->
                    LET f == ParseFloat(g.val.str)
                    IN  IF ~ f.ok THEN Returns(GoFloat32(0), cannot)
                        ELSE Returns(GoFloat32(f.tenths), Nil)
               [] OTHER -> Returns(GoFloat32(0), cannot)

\* func (c *Config) GetFloat64(path string) (float64, error)
GetFloat64(h, root, path) ==
    LET g == Get(h, root, path)
        cannot == Errorf("cannot parse value: %s to float64", path)
    IN  IF g.panic THEN Panics
        ELSE IF g.val = Nil THEN Returns(GoFloat64(0), NotFound(path))
        ELSE CASE g.val.kind = "Float64" -> Returns(GoFloat64(g.val.f64), Nil)
               [] g.val.kind = "Float32" -> Returns(Widen(g.val.f32), Nil)
               [] g.val.kind = "String" ->
                    LET f == ParseFloat(g.val.str)
                    IN  IF ~ f.ok THEN Returns(GoFloat64(0), cannot)
                        ELSE Returns(GoFloat64(f.tenths), Nil)
               [] OTHER -> Returns(GoFloat64(0), cannot)

\* GetBoolean that takes every String but the three true ones for false.
GetBooleanLenient(h, root, path) ==
    LET g == Get(h, root, path)
        cannot == Errorf("cannot parse value: %s to boolean", path)
    IN  IF g.panic THEN Panics
        ELSE IF g.val = Nil THEN Returns(GoBool(FALSE), NotFound(path))
        ELSE CASE g.val.kind = "Boolean" -> Returns(GoBool(g.val.bool), Nil)
               [] g.val.kind = "String" ->
                    Returns(GoBool(g.val.str \in { <<"t", "r", "u", "e">>,
                                                   <<"y", "e", "s">>, <<"o", "n">> }), Nil)
               [] OTHER -> Returns(GoBool(FALSE), cannot)

\* func (c *Config) GetBoolean(path string) (bool, error)
GetBoolean(h, root, path) ==
    LET g == Get(h, root, path)
        cannot == Errorf("cannot parse value: %s to boolean", path)
    IN  IF g.panic THEN Panics
        ELSE IF g.val = Nil THEN Returns(GoBool(FALSE), NotFound(path))
        ELSE CASE g.val.kind = "Boolean" -> Returns(GoBool(g.val.bool), Nil)
               [] g.val.kind = "String" ->
                    CASE g.val.str \in { <<"t", "r", "u", "e">>, <<"y", "e", "s">>,
                                         <<"o", "n">> } -> Returns(GoBool(TRUE), Nil)
                      [] g.val.str \in { <<"f", "a", "l", "s", "e">>, <<"n", "o">>,
                                         <<"o", "f", "f">> } -> Returns(GoBool(FALSE), Nil)
                      [] OTHER -> Returns(GoBool(FALSE), cannot)
               [] OTHER -> Returns(GoBool(FALSE), cannot)

\* GetDuration without the nil check: an absent value fails the assertion.
GetDurationNoNilCheck(h, root, path) ==
    LET g == Get(h, root, path)
    IN  IF g.panic THEN Panics
        ELSE IF g.val.kind # "Duration"
             THEN Returns(GoDuration(0), Errorf("cannot parse value: %s to Duration", path))
        ELSE Returns(GoDuration(g.val.us), Nil)

\* GetDuration that reads a String of whole seconds as a duration.
GetDurationOfString(h, root, path) ==
    LET g == Get(h, root, path)
        cannot == Errorf("cannot parse value: %s to Duration", path)
    IN  IF g.panic THEN Panics
        ELSE IF g.val = Nil THEN Returns(GoDuration(0), NotFound(path))
        ELSE CASE g.val.kind = "Duration" -> Returns(GoDuration(g.val.us), Nil)
               [] g.val.kind = "String" ->
                    IF Len(g.val.str) > 1 /\ g.val.str[Len(g.val.str)] = "s"
                       /\ Atoi(SubSeq(g.val.str, 1, Len(g.val.str) - 1)).ok
                    THEN Returns(GoDuration(
                             Atoi(SubSeq(g.val.str, 1, Len(g.val.str) - 1)).int * Second), Nil)
                    ELSE Returns(GoDuration(0), cannot)
               [] OTHER -> Returns(GoDuration(0), cannot)

\* func (c *Config) GetDuration(path string) (time.Duration, error)
GetDuration(h, root, path) ==
    LET g == Get(h, root, path)
    IN  IF g.panic THEN Panics
        ELSE IF g.val = Nil THEN Returns(GoDuration(0), NotFound(path))
        ELSE IF g.val.kind # "Duration"
             THEN Returns(GoDuration(0), Errorf("cannot parse value: %s to Duration", path))
        ELSE Returns(GoDuration(g.val.us), Nil)

\* func (c *Config) GetRoot() Value
GetRoot(root) == Returns(root, Nil)

\* func (c *Config) String() string
ConfigString(h, root, ord) == Returns(GoString(ValueString(h, root, ord)), Nil)

\* The characters of the model in the order of their bytes.
ByteOrder ==
    <<" ", "\"", "+", "-", ".", "0", "1", "2", "3", "4", "5", "6", "7", "8", "9",
      "Y", "\\", "a", "b", "e", "f", "l", "n", "o", "r", "s", "t", "u", "x", "y">>

ByteRank(ch) == CHOOSE i \in DOMAIN ByteOrder : ByteOrder[i] = ch

RECURSIVE StrLess(_, _)
\* a < b for Go strings: byte by byte, a proper prefix first.
StrLess(a, b) ==
    IF b = <<>> THEN FALSE
    ELSE IF a = <<>> THEN TRUE
    ELSE IF Head(a) # Head(b) THEN ByteRank(Head(a)) < ByteRank(Head(b))
    ELSE StrLess(Tail(a), Tail(b))

\* A set of strings as a sequence, in some order.
RECURSIVE SeqOf(_)
SeqOf(S) ==
    IF S = {} THEN <<>>
    ELSE LET x == CHOOSE y \in S : TRUE IN <<x>> \o SeqOf(S \ {x})

RECURSIVE Remarshal(_, _), RemarshalFields(_, _, _), RemarshalElems(_, _)

\* encoding/json applied to what json.Unmarshal decoded from Value.Json():
\* the keys of a map sorted and separated by "," alone, the numbers of the
\* model (short integers) as their digits, the strings escaped again.
Remarshal(h, v) ==
    CASE v.kind = "Object" ->
            <<"{">> \o RemarshalFields(h, v.ref, SortSeq(SeqOf(DOMAIN h[v.ref]), StrLess))
            \o <<"}">>
      [] v.kind = "Array" ->
            <<"[">> \o RemarshalElems(h, v.elems) \o <<"]">>
      [] v.kind = "String"   -> jsonMarshal(v.str)
      [] v.kind = "Float32"  -> jsonMarshal(ScalarString(v))
      [] v.kind = "Float64"  -> jsonMarshal(ScalarString(v))
      [] v.kind = "Duration" -> Itoa(Milliseconds(v.us))
      [] OTHER               -> ScalarString(v)

RemarshalFields(h, id, ks) ==
    IF ks = <<>> THEN <<>>
    ELSE jsonMarshal(Head(ks)) \o <<":">> \o Remarshal(h, h[id][Head(ks)])
         \o (IF Len(ks) > 1 THEN <<",">> ELSE <<>>)
         \o RemarshalFields(h, id, Tail(ks))

RemarshalElems(h, es) ==
    IF es = <<>> THEN <<>>
    ELSE Remarshal(h, Head(es)) \o (IF Len(es) > 1 THEN <<",">> ELSE <<>>)
         \o RemarshalElems(h, Tail(es))

\* json.Unmarshal(text, &js) with js a map: nil for a JSON object and for
\* null, an error for every other JSON text.
UnmarshalIntoMap(text) ==
    IF Head(text) = "{" \/ text = null THEN Nil
    ELSE Errorf("json: cannot unmarshal %s into Go value of type map[string]interface {}",
                text)

\* func (c *Config) Json() string
ConfigJson(h, root, ord) ==
    IF UnmarshalIntoMap(Json(h, root, ord)) # Nil THEN Panics
    ELSE Returns(GoString(Remarshal(h, root)), Nil)

-----------------------------------------------------------------------------
(* The accessor specification: one call on one Config *)

\* The values of every kind, the strings the coercions tell apart among them.
AccessLeaves ==
    { Integer(7), Integer(0 - 2),
      Boolean(TRUE), Boolean(FALSE),
      Float32(15), Float64(15), Float64(1),
      Duration(5 * Second), Duration(1500 * Millisecond),
      Null,
      Array(<<>>), Array(<<Integer(1), Integer(2)>>),
      Array(<<Integer(1), String(<<"x">>)>>) }
    \cup
    { String(x) : x \in
        { <<>>, <<"3">>, <<"-", "1">>, <<"+", "2">>, <<"0", "7">>, <<"3", "a">>,
          <<"1", ".", "5">>, <<"-">>, <<"a", "a">>, <<"5", "s">>,
          <<"t", "r", "u", "e">>, <<"y", "e", "s">>, <<"o", "n">>,
          <<"f", "a", "l", "s", "e">>, <<"n", "o">>, <<"o", "f", "f">>,
          <<"Y", "e", "s">>, <<"o", "n", " ">>, <<"t">> } }

\* The trees the typed accessors are called on: every kind as the root, under
\* one key, and under a key of a nested Object.
AccessRoots ==
    AccessLeaves
    \cup { ObjectLit(ka :> v) : v \in AccessLeaves \cup {ObjectLit(EmptyMap)} }
    \cup { ObjectLit(ka :> ObjectLit(kb :> v)) : v \in AccessLeaves }

\* The trees paths are looked up in: every shape of Object within the bound,
\* and roots that are not Objects.
NavRoots ==
    { Integer(1), Array(<<>>) } \cup ObjectLits({Integer(1)}, MaxNavEntries)

RECURSIVE Join(_)
\* strings.Join(segments, ".")
Join(segs) ==
    IF Len(segs) = 1 THEN segs[1]
    ELSE segs[1] \o <<dotToken>> \o Join(Tail(segs))

\* The paths: up to MaxSegments segments, each a key or empty, joined by dots.
Paths ==
    { Join(segs) : segs \in UNION { [1..n -> Keys \cup {<<>>}] : n \in 1..MaxSegments } }

\* One Config with a root among roots, and the path to call it with.
InitOn(roots) ==
    \E t \in roots, p \in Paths :
        LET r == Alloc(<<>>, t)
        IN  /\ heap = r.heap
            /\ configs = <<r.val>>
            /\ inputs = 1
            /\ call = [c |-> 1, path |-> p]
            /\ pc = "idle"
            /\ last = NoResult
            /\ frames = <<>>

InitAccess == InitOn(AccessRoots)
InitNav == InitOn(NavRoots)

\* The call returns ret.
Called(op, ret) ==
    /\ pc = "idle"
    /\ pc' = "done"
    /\ last' = [op |-> op, ret |-> ret]
    /\ UNCHANGED <<heap, configs, inputs, call, frames>>

root == configs[call.c]
Orders == [1..Len(heap) -> KeyOrders]

DoFind       == IsObject(root) /\ Called("find", find(heap, root.ref, call.path))
DoGet        == Called("Get", Get(heap, root, call.path))
DoGetObject  == Called("GetObject", GetObject(heap, root, call.path))
DoGetConfig  == Called("GetConfig", GetConfig(heap, root, call.path))
DoGetStringMap == Called("GetStringMap", GetStringMap(heap, root, call.path))
DoGetStringMapString ==
    \E ord \in Orders :
        Called("GetStringMapString", GetStringMapString(heap, root, call.path, ord))
DoGetArray   == Called("GetArray", GetArray(heap, root, call.path))
DoGetIntSlice == Called("GetIntSlice", GetIntSlice(heap, root, call.path))
DoGetStringSlice ==
    \E ord \in Orders :
        Called("GetStringSlice", GetStringSlice(heap, root, call.path, ord))
DoGetString  ==
    \E ord \in Orders : Called("GetString", GetString(heap, root, call.path, ord))
DoGetInt     == Called("GetInt", GetInt(heap, root, call.path))
DoGetFloat32 == Called("GetFloat32", GetFloat32(heap, root, call.path))
DoGetFloat64 == Called("GetFloat64", GetFloat64(heap, root, call.path))
DoGetBoolean == Called("GetBoolean", GetBoolean(heap, root, call.path))
DoGetDuration == Called("GetDuration", GetDuration(heap, root, call.path))
DoGetRoot    == Called("GetRoot", GetRoot(root))
DoString     == \E ord \in Orders : Called("String", ConfigString(heap, root, ord))
DoJson       == \E ord \in Orders : Called("Json", ConfigJson(heap, root, ord))

NextAccess ==
    \/ DoFind
    \/ DoGet
    \/ DoGetObject
    \/ DoGetConfig
    \/ DoGetStringMap
    \/ DoGetStringMapString
    \/ DoGetArray
    \/ DoGetIntSlice
    \/ DoGetStringSlice
    \/ DoGetString
    \/ DoGetInt
    \/ DoGetFloat32
    \/ DoGetFloat64
    \/ DoGetBoolean
    \/ DoGetDuration
    \/ DoGetRoot
    \/ DoString
    \/ DoJson

SpecAccess == InitAccess /\ [][NextAccess]_vars

NextNav ==
    \/ DoFind
    \/ DoGet

SpecNav == InitNav /\ [][NextNav]_vars

-----------------------------------------------------------------------------
(* Navigation and accessors: C4 .. C10 *)

Segments == UNION { [1..n -> Keys \cup {<<>>}] : n \in 1..MaxSegments }

\* The segments the path was written from.
SegmentsOf(path) == CHOOSE segs \in Segments : Join(segs) = path

RECURSIVE Nav(_, _)
\* Where the segments lead in the tree t of an Object: "missing" when a
\* segment before the last is not a key, "blocked" when its value is not an
\* Object, else "terminal" with the value under the last segment, Nil if unset.
Nav(t, segs) ==
    IF Len(segs) = 1
    THEN [kind |-> "terminal",
          val |-> IF segs[1] \in DOMAIN t.fields THEN t.fields[segs[1]] ELSE Nil]
    ELSE IF segs[1] \notin DOMAIN t.fields THEN [kind |-> "missing"]
    ELSE IF ~ IsLit(t.fields[segs[1]]) THEN [kind |-> "blocked"]
    ELSE Nav(t.fields[segs[1]], Tail(segs))

\* Where the path of the call leads from the root of the Config.
Reached ==
    IF ~ IsObject(root) THEN [kind |-> "noroot"]
    ELSE Nav(TreeOf(heap, root), SegmentsOf(call.path))

\* The value at the path is there, and which it is.
Present == Reached.kind = "terminal" /\ Reached.val # Nil
Absent  == Reached.kind \in {"noroot", "missing"}
               \/ (Reached.kind = "terminal" /\ Reached.val = Nil)
Target  == Reached.val

Did(op) == pc = "done" /\ last.op = op

\* C4: find returns absent when a segment before the last is missing, and the
\* value under the last segment, or absent, when all before it are Objects.
C4_FindWalksThePath ==
    Did("find") =>
        /\ Reached.kind = "missing" => last.ret = Returns(Nil, Nil)
        /\ Reached.kind = "terminal" =>
              /\ ~ last.ret.panic
              /\ TreeOf(heap, last.ret.val) = Reached.val

\* find has walked two Objects and found the value under the third segment.
C4_Witness ==
    /\ Did("find")
    /\ Len(SegmentsOf(call.path)) = 3
    /\ Present
    /\ ~ last.ret.panic
    /\ TreeOf(heap, last.ret.val) = Target

\* find has given up at a missing segment that is not the last.
C4_WitnessMissing ==
    /\ Did("find")
    /\ Reached.kind = "missing"
    /\ last.ret = Returns(Nil, Nil)

\* C5: navigation through a segment whose value is not an Object returns an
\* error to the caller; it does not panic.
C5_BlockedPathReturnsError ==
    (Did("Get") /\ Reached.kind = "blocked") =>
        /\ ~ last.ret.panic
        /\ last.ret.err # Nil

\* C6: Config.Json returns to its caller whatever the root is.
C6_JsonReturns ==
    Did("Json") => ~ last.ret.panic

TypedGetters ==
    { "GetString", "GetInt", "GetFloat32", "GetFloat64", "GetBoolean", "GetDuration",
      "GetObject", "GetArray", "GetIntSlice", "GetStringSlice", "GetStringMapString" }

\* The zero value each typed getter returns with an error.
ZeroOf(op) ==
    CASE op = "GetString"   -> GoString(<<>>)
      [] op = "GetInt"      -> GoInt(0)
      [] op = "GetFloat32"  -> GoFloat32(0)
      [] op = "GetFloat64"  -> GoFloat64(0)
      [] op = "GetBoolean"  -> GoBool(FALSE)
      [] op = "GetDuration" -> GoDuration(0)
      [] OTHER              -> Nil

\* C7: Get is absent for every path under a root that is not an Object, and a
\* typed getter returns "config value not found at path: <path>" with its zero
\* value exactly when the value is absent.
C7_NotFoundIffAbsent ==
    /\ (Did("Get") /\ ~ IsObject(root)) => last.ret = Returns(Nil, Nil)
    /\ (Did("Get") /\ Reached.kind # "blocked") =>
          /\ ~ last.ret.panic
          /\ (last.ret.val = Nil) <=> Absent
    /\ (pc = "done" /\ last.op \in TypedGetters /\ Reached.kind # "blocked") =>
          /\ ~ last.ret.panic
          /\ (last.ret.err = NotFound(call.path)) <=> Absent
          /\ Absent => last.ret.val = ZeroOf(last.op)

\* A typed getter has reported a value absent below an Object that is there.
C7_Witness ==
    /\ pc = "done"
    /\ last.op = "GetDuration"
    /\ Len(SegmentsOf(call.path)) = 2
    /\ Reached.kind = "terminal"
    /\ Absent
    /\ last.ret = Returns(GoDuration(0), NotFound(call.path))

RECURSIVE Pow10(_)
Pow10(n) == IF n = 0 THEN 1 ELSE 10 * Pow10(n - 1)

\* The digits of s weighted by their places.
PlaceValue(s) ==
    LET RECURSIVE Sum(_)
        Sum(i) == IF i > Len(s) THEN 0
                  ELSE DigitVal(s[i]) * Pow10(Len(s) - i) + Sum(i + 1)
    IN  Sum(1)

\* s is a base-10 integer: an optional sign and one digit or more.
IsBase10(s) ==
    LET ds == IF s # <<>> /\ s[1] \in {"+", "-"} THEN Tail(s) ELSE s
    IN  ds # <<>> /\ \A i \in DOMAIN ds : IsDigit(ds[i])

Base10Value(s) ==
    IF s[1] = "-" THEN 0 - PlaceValue(Tail(s))
    ELSE IF s[1] = "+" THEN PlaceValue(Tail(s))
    ELSE PlaceValue(s)

CannotParse(to) ==
    Errorf(CASE to = "int"      -> "cannot parse value: %s to int"
             [] to = "boolean"  -> "cannot parse value: %s to boolean"
             [] to = "Duration" -> "cannot parse value: %s to Duration",
           call.path)

\* C8: GetInt on a present value returns an Integer as it is and a String
\* that is a base-10 integer parsed, with no error; for any other String and
\* any other kind it returns 0 and "cannot parse value: <path> to int".
C8_GetIntCoerces ==
    (Did("GetInt") /\ Present) =>
        CASE Target.kind = "Int" -> last.ret = Returns(GoInt(Target.int), Nil)
          [] Target.kind = "String" /\ IsBase10(Target.str) ->
                last.ret = Returns(GoInt(Base10Value(Target.str)), Nil)
          [] OTHER -> last.ret = Returns(GoInt(0), CannotParse("int"))

\* GetInt has parsed a signed String.
C8_Witness ==
    /\ Did("GetInt")
    /\ Present
    /\ Target = String(<<"-", "1">>)
    /\ last.ret = Returns(GoInt(0 - 1), Nil)

TrueStrings  == { <<"t", "r", "u", "e">>, <<"y", "e", "s">>, <<"o", "n">> }
FalseStrings == { <<"f", "a", "l", "s", "e">>, <<"n", "o">>, <<"o", "f", "f">> }

\* C9: GetBoolean on a present value returns a Boolean as it is, true for the
\* Strings true, yes, on and false for false, no, off, with no error; for any
\* other String and any other kind it returns false and "cannot parse value:
\* <path> to boolean".
C9_GetBooleanCoerces ==
    (Did("GetBoolean") /\ Present) =>
        CASE Target.kind = "Boolean" -> last.ret = Returns(GoBool(Target.bool), Nil)
          [] Target.kind = "String" /\ Target.str \in TrueStrings ->
                last.ret = Returns(GoBool(TRUE), Nil)
          [] Target.kind = "String" /\ Target.str \in FalseStrings ->
                last.ret = Returns(GoBool(FALSE), Nil)
          [] OTHER -> last.ret = Returns(GoBool(FALSE), CannotParse("boolean"))

\* GetBoolean has refused a String that differs from yes by its case only.
C9_Witness ==
    /\ Did("GetBoolean")
    /\ Present
    /\ Target = String(<<"Y", "e", "s">>)
    /\ last.ret = Returns(GoBool(FALSE), CannotParse("boolean"))

\* C10: GetObject, GetArray and GetDuration succeed on a present value of
\* their own kind only, and fail otherwise with "is not an object", "is not an
\* array" and "cannot parse value: <path> to Duration".
C10_ExactKindGetters ==
    /\ (Did("GetObject") /\ Present) =>
          IF IsLit(Target)
          THEN ~ last.ret.panic /\ last.ret.err = Nil
               /\ TreeOf(heap, last.ret.val) = Target
          ELSE last.ret = Returns(Nil,
                   Errorf("config value at path: %s is not an object", call.path))
    /\ (Did("GetArray") /\ Present) =>
          IF Target.kind = "Array"
          THEN ~ last.ret.panic /\ last.ret.err = Nil
               /\ TreeOf(heap, last.ret.val) = Target
          ELSE last.ret = Returns(Nil,
                   Errorf("config value at path: %s is not an array", call.path))
    /\ (Did("GetDuration") /\ Present) =>
          IF Target.kind = "Duration"
          THEN last.ret = Returns(GoDuration(Target.us), Nil)
          ELSE last.ret = Returns(GoDuration(0), CannotParse("Duration"))

\* GetDuration has refused a String that reads as a duration.
C10_Witness ==
    /\ Did("GetDuration")
    /\ Present
    /\ Target = String(<<"5", "s">>)
    /\ last.ret = Returns(GoDuration(0), CannotParse("Duration"))

\* C11: GetIntSlice on a present Array of Integers alone returns those
\* integers, as many and in the same order, with no error; on any other
\* present value it returns the nil slice and "is not an array of integers",
\* never a part of the integers.  GetStringSlice on a present Array returns
\* no error and the String() of each element, as many and in the same order.
C11_SliceGetters ==
    /\ (Did("GetIntSlice") /\ Present) =>
          IF /\ Target.kind = "Array"
             /\ \A i \in DOMAIN Target.elems : Target.elems[i].kind = "Int"
          THEN /\ last.ret.err = Nil
               /\ last.ret.val.kind = "[]int"
               /\ Len(last.ret.val.elems) = Len(Target.elems)
               /\ \A i \in DOMAIN Target.elems :
                     last.ret.val.elems[i] = Target.elems[i].int
          ELSE last.ret =
                   Returns(Nil,
                           Errorf("config value at path: %s is not an array of integers",
                                  call.path))
    /\ (Did("GetStringSlice") /\ Present /\ Target.kind = "Array") =>
          /\ ~ last.ret.panic
          /\ last.ret.err = Nil
          /\ last.ret.val.kind = "[]string"
          /\ Len(last.ret.val.elems) = Len(Target.elems)
          /\ \A i \in DOMAIN Target.elems :
                last.ret.val.elems[i] = ScalarString(Target.elems[i])

\* GetIntSlice has refused an Array whose first element is an Integer and
\* whose second is not.
C11_Witness ==
    /\ Did("GetIntSlice")
    /\ Present
    /\ Target = Array(<<Integer(1), String(<<"x">>)>>)
    /\ last.ret.val = Nil
    /\ last.ret.err # Nil

\* GetStringSlice has rendered an Array of two kinds.
C11_WitnessStrings ==
    /\ Did("GetStringSlice")
    /\ Present
    /\ Target = Array(<<Integer(1), String(<<"x">>)>>)
    /\ last.ret = Returns(GoStringSlice(<<<<"1">>, <<"x">>>>), Nil)

-----------------------------------------------------------------------------
(* The rendering specification: String() or Json() of one Value *)

\* The fragments: Strings with quotes around them, inside them and on one
\* side, a fragment that is nil, and kinds whose rendering holds quotes.
Fragments ==
    { String(<<"a">>), String(<<"\"", "a", "\"">>), String(<<"a", "\"", "b">>),
      String(<<"\"">>), Integer(1), Nil, ObjectLit(ka :> String(<<"a">>)) }

SeqsUpTo(S, n) == UNION { [1..m -> S] : m \in 0..n }

\* The values rendered: Objects of no, one and two keys, Arrays and
\* concatenations of up to MaxElems elements.
RenderRoots ==
    { ObjectLit(f) : f \in UNION {
        [S -> { Integer(1), String(<<"x">>), String(<<",", " ">>), ObjectLit(EmptyMap),
                ObjectLit(ka :> Integer(1) @@ kb :> Integer(2)),
                Array(<<Integer(1), Integer(2)>>) }] : S \in SUBSET Keys } }
    \cup { Array(es) : es \in SeqsUpTo({ Integer(1), String(<<"x">>),
                                           ObjectLit(ka :> Integer(1)), Array(<<>>) },
                                         MaxElems) }
    \cup { concatenation(es) : es \in SeqsUpTo(Fragments, MaxElems) \ {<<>>} }

\* One Config with a root among docs, and no path.
InitDocs(docs) ==
    \E t \in docs :
        LET r == Alloc(<<>>, t)
        IN  /\ heap = r.heap
            /\ configs = <<r.val>>
            /\ inputs = 1
            /\ call = [c |-> 1, path |-> <<>>]
            /\ pc = "idle"
            /\ last = NoResult
            /\ frames = <<>>

\* The rendering returns str when the maps are ranged over in the order ord.
Rendered(op, str, ord) ==
    /\ pc = "idle"
    /\ pc' = "done"
    /\ last' = [op |-> op, ret |-> str, ord |-> ord]
    /\ UNCHANGED <<heap, configs, inputs, call, frames>>

DoValueString ==
    \E ord \in Orders : Rendered("Value.String", ValueString(heap, root, ord), ord)
DoValueJson ==
    \E ord \in Orders : Rendered("Value.Json", Json(heap, root, ord), ord)

NextRender ==
    \/ DoValueString
    \/ DoValueJson

SpecRender == InitDocs(RenderRoots) /\ [][NextRender]_vars

-----------------------------------------------------------------------------
(* Rendering: C12, C13 *)

quote == "\""

RECURSIVE JoinWith(_, _)
\* The parts with sep between every two of them, and nowhere else.
JoinWith(parts, sep) ==
    IF parts = <<>> THEN <<>>
    ELSE IF Len(parts) = 1 THEN parts[1]
    ELSE parts[1] \o sep \o JoinWith(Tail(parts), sep)

DidRender == pc = "done" /\ last.op \in {"Value.String", "Value.Json"}

\* The "key":value pairs of the root Object, in the order its map was ranged.
PairsOf(id) ==
    LET ks == RangeOver(heap, id, last.ord)
    IN  [i \in 1..Len(ks) |->
            jsonMarshal(ks[i]) \o <<":">> \o Json(heap, heap[id][ks[i]], last.ord)]

\* C12: an Object of n keys renders, as String and as Json, as "{", its n
\* pairs "key":value with ", " between every two of them and none after the
\* last, and "}", in whichever order the keys come; the empty Object as "{}".
\* An Array renders as "[", its elements with "," between them, and "]"; the
\* empty Array as "[]".
C12_ObjectAndArrayRendering ==
    /\ (DidRender /\ IsObject(root)) =>
          /\ Len(PairsOf(root.ref)) = Cardinality(DOMAIN heap[root.ref])
          /\ last.ret = <<"{">> \o JoinWith(PairsOf(root.ref), <<",", " ">>) \o <<"}">>
          /\ DOMAIN heap[root.ref] = {} => last.ret = <<"{", "}">>
    /\ (DidRender /\ root.kind = "Array") =>
          /\ last.ret =
                <<"[">>
                \o JoinWith([i \in DOMAIN root.elems |->
                                Json(heap, root.elems[i], last.ord)], <<",">>)
                \o <<"]">>
          /\ root.elems = <<>> => last.ret = <<"[", "]">>

\* An Object of two keys has been rendered with b before a, and one of its
\* values is a String that reads as the separator.
C12_Witness ==
    /\ DidRender
    /\ IsObject(root)
    /\ DOMAIN heap[root.ref] = Keys
    /\ RangeOver(heap, root.ref, last.ord) = <<kb, ka>>
    /\ heap[root.ref][kb] = String(<<",", " ">>)
    /\ heap[root.ref][ka] = Integer(1)
    /\ last.ret = <<"{", quote, "b", quote, ":", quote, ",", " ", quote, ",", " ",
                    quote, "a", quote, ":", "1", "}">>

\* An Array of three elements has been rendered.
C12_WitnessArray ==
    /\ DidRender
    /\ root = Array(<<Integer(1), String(<<"x">>), Array(<<>>)>>)
    /\ last.ret = <<"[", "1", ",", quote, "x", quote, ",", "[", "]", "]">>

\* s without the quotes it starts with and the quotes it ends with.
WithoutOuterQuotes(s) ==
    LET inner == { i \in DOMAIN s : s[i] # quote }
        lo == CHOOSE i \in inner : \A j \in inner : i <= j
        hi == CHOOSE i \in inner : \A j \in inner : j <= i
    IN  IF inner = {} THEN <<>> ELSE SubSeq(s, lo, hi)

RECURSIVE Flatten(_)
Flatten(parts) == IF parts = <<>> THEN <<>> ELSE Head(parts) \o Flatten(Tail(parts))

DidString == pc = "done" /\ last.op = "Value.String"

\* C13 as stated: the string form of a concatenation holds no double quote.
C13_NoQuoteAnywhere ==
    (DidString /\ root.kind = "concatenation") =>
        \A i \in DOMAIN last.ret : last.ret[i] # quote

\* C13 as amended: the string form of a concatenation is the string forms of
\* its fragments that are not nil, in their order and with nothing between
\* them, each without the double quotes it starts and ends with; a double
\* quote inside a fragment's string form stays.
C13_OuterQuotesStripped ==
    (DidString /\ root.kind = "concatenation") =>
        LET present == SelectSeq(root.elems, LAMBDA v : v # Nil)
        IN  last.ret =
                Flatten([i \in DOMAIN present |->
                            WithoutOuterQuotes(ValueString(heap, present[i], last.ord))])

\* A quoted fragment has lost its quotes and a fragment with a quote inside
\* has kept it.
C13_Witness ==
    /\ DidString
    /\ root = concatenation(<<String(<<quote, "a", quote>>), Nil,
                              String(<<"a", quote, "b">>)>>)
    /\ last.ret = <<"a", "a", quote, "b">>

-----------------------------------------------------------------------------
(* The resolver: substitutions and concatenations of a document are         *)
(* replaced by the values they stand for.  One frame of the stack is one    *)
(* call in progress; a step runs the innermost call up to its next call or  *)
(* its return.                                                              *)

UnresolvedSubstitution(path) == Errorf("substitution not resolved: %s", path)
CyclicSubstitution(path)     == Errorf("cyclic substitution: %s", path)
InvalidConcatenation == Errorf("cannot concatenate object with non-object%s", <<>>)

\* A value to resolve.
EvalFrame(v) == [t |-> "eval", v |-> v]
\* A call that has returned res to the frame below it.
RetFrame(res) == [t |-> "ret", res |-> res]
\* The Object src being resolved into the new Object dst, key by key.
ObjectFrame(src, dst, todo) == [t |-> "Object", src |-> src, dst |-> dst, todo |-> todo]
\* An Array or a concatenation being resolved, element by element.
ArrayFrame(todo, acc)  == [t |-> "Array", todo |-> todo, acc |-> acc]
ConcatFrame(todo, acc) == [t |-> "concatenation", todo |-> todo, acc |-> acc]
\* The substitution of path being resolved: the marker of a path in progress.
SubFrame(path) == [t |-> "Substitution", path |-> path]

\* The paths whose substitution is being resolved.
InProgress(fs) == { fs[i].path : i \in { j \in DOMAIN fs : fs[j].t = "Substitution" } }

\* resolveSubstitution that hands out the value found as it is, unresolved.
resolveSubstitutionOnce(h, fs, documentRoot, v) ==
    LET found == find(h, documentRoot, v.path)
    IN  IF found.panic THEN Append(fs, RetFrame(Panics))
        ELSE IF found.val # Nil THEN Append(fs, RetFrame(Returns(found.val, Nil)))
        ELSE IF v.optional THEN Append(fs, RetFrame(Returns(Nil, Nil)))
        ELSE Append(fs, RetFrame(Returns(Nil, UnresolvedSubstitution(v.path))))

\* resolveSubstitution without the check of the paths in progress.
resolveSubstitutionUnchecked(h, fs, documentRoot, v) ==
    LET found == find(h, documentRoot, v.path)
    IN  IF found.panic THEN Append(fs, RetFrame(Panics))
        ELSE IF found.val # Nil
             THEN fs \o <<SubFrame(v.path), EvalFrame(found.val)>>
        ELSE IF v.optional THEN Append(fs, RetFrame(Returns(Nil, Nil)))
        ELSE Append(fs, RetFrame(Returns(Nil, UnresolvedSubstitution(v.path))))

\* What resolving the substitution v starts with: an error, absence, or the
\* value found at its path, to be resolved in turn.
resolveSubstitution(h, fs, documentRoot, v) ==
    IF v.path \in InProgress(fs)
    THEN Append(fs, RetFrame(Returns(Nil, CyclicSubstitution(v.path))))
    ELSE LET found == find(h, documentRoot, v.path)
         IN  IF found.panic THEN Append(fs, RetFrame(Panics))
             ELSE IF found.val # Nil
                  THEN fs \o <<SubFrame(v.path), EvalFrame(found.val)>>
             ELSE IF v.optional THEN Append(fs, RetFrame(Returns(Nil, Nil)))
             ELSE Append(fs, RetFrame(Returns(Nil, UnresolvedSubstitution(v.path))))

\* What the resolved fragments make: [heap, res].
resolveConcatenation(h, fragments, ord) ==
    LET present == SelectSeq(fragments, LAMBDA v : v # Nil)
        \* The Objects os merged into result from left to right: the heap.
        RECURSIVE mergeFragments(_, _, _)
        mergeFragments(h1, result, os) ==
            IF os = <<>> THEN h1
            ELSE mergeFragments(
                     mergeObjects(h1, result, Head(os).ref, DOMAIN h1[Head(os).ref]),
                     result, Tail(os))
    IN  IF containsObject(fragments)
        THEN IF \E i \in DOMAIN present : ~ IsObject(present[i])
             THEN [heap |-> h, res |-> Returns(Nil, InvalidConcatenation)]
             ELSE LET r == copy(h, present[1].ref)
                  IN  [heap |-> mergeFragments(r.heap, r.ref, Tail(present)),
                       res  |-> Returns(Object(r.ref), Nil)]
        ELSE [heap |-> h,
              res  |-> Returns(String(concatenationString(h, fragments, ord)), Nil)]

\* Resolution of the document of the Config starts at its root.
resolveStart ==
    /\ pc = "idle"
    /\ IsObject(root)
    /\ pc' = "resolving"
    /\ frames' = <<EvalFrame(root)>>
    /\ UNCHANGED <<heap, configs, inputs, call, last>>

\* The innermost call is given a value: a container opens a frame, a
\* substitution looks its path up, any other value is returned as it is.
resolveEval ==
    /\ pc = "resolving"
    /\ frames[Len(frames)].t = "eval"
    /\ Len(frames) < MaxFrames
    /\ LET v == frames[Len(frames)].v
           fs == SubSeq(frames, 1, Len(frames) - 1)
       IN  CASE v = Nil ->
                  /\ frames' = Append(fs, RetFrame(Returns(Nil, Nil)))
                  /\ heap' = heap
             [] v # Nil /\ v.kind = "Object" ->
                  /\ heap' = Append(heap, EmptyMap)
                  \* the keys are visited in their sorted order
                  /\ frames' = Append(fs, ObjectFrame(v.ref, Len(heap) + 1,
                                          SortSeq(SeqOf(DOMAIN heap[v.ref]), StrLess)))
             [] v # Nil /\ v.kind = "Array" ->
                  /\ frames' = Append(fs, ArrayFrame(v.elems, <<>>))
                  /\ heap' = heap
             [] v # Nil /\ v.kind = "concatenation" ->
                  /\ frames' = Append(fs, ConcatFrame(v.elems, <<>>))
                  /\ heap' = heap
             [] v # Nil /\ v.kind = "Substitution" ->
                  /\ frames' = resolveSubstitution(heap, fs, root.ref, v)
                  /\ heap' = heap
             [] OTHER ->
                  /\ frames' = Append(fs, RetFrame(Returns(v, Nil)))
                  /\ heap' = heap
    /\ UNCHANGED <<configs, inputs, call, pc, last>>

\* A container with values left calls the resolution of the next of them.
resolveDescend ==
    /\ pc = "resolving"
    /\ frames[Len(frames)].t \in {"Object", "Array", "concatenation"}
    /\ frames[Len(frames)].todo # <<>>
    /\ Len(frames) < MaxFrames
    /\ LET f == frames[Len(frames)]
       IN  frames' = Append(frames,
                            EvalFrame(IF f.t = "Object" THEN heap[f.src][Head(f.todo)]
                                      ELSE Head(f.todo)))
    /\ UNCHANGED <<heap, configs, inputs, call, pc, last>>

\* A call returns to the frame below it: an error or a panic ends that frame
\* too, a substitution hands the value on, a container stores the value
\* unless it is absent (a concatenation keeps the absent fragment as nil).
resolveReturn ==
    /\ pc = "resolving"
    /\ frames[Len(frames)].t = "ret"
    /\ Len(frames) > 1
    /\ LET res == frames[Len(frames)].res
           f == frames[Len(frames) - 1]
           fs == SubSeq(frames, 1, Len(frames) - 2)
       IN  IF res.panic \/ res.err # Nil \/ f.t = "Substitution"
           THEN /\ frames' = Append(fs, RetFrame(res))
                /\ heap' = heap
           ELSE CASE f.t = "Object" ->
                       /\ heap' = IF res.val = Nil THEN heap
                                  ELSE [heap EXCEPT ![f.dst] = Put(@, Head(f.todo), res.val)]
                       /\ frames' = Append(fs, ObjectFrame(f.src, f.dst, Tail(f.todo)))
                  [] f.t = "Array" ->
                       /\ heap' = heap
                       /\ frames' = Append(fs, ArrayFrame(Tail(f.todo),
                                              IF res.val = Nil THEN f.acc
                                              ELSE Append(f.acc, res.val)))
                  [] f.t = "concatenation" ->
                       /\ heap' = heap
                       /\ frames' = Append(fs, ConcatFrame(Tail(f.todo),
                                                           Append(f.acc, res.val)))
    /\ UNCHANGED <<configs, inputs, call, pc, last>>

\* A container with no value left returns what it has become.
resolveFinish ==
    /\ pc = "resolving"
    /\ frames[Len(frames)].t \in {"Object", "Array", "concatenation"}
    /\ frames[Len(frames)].todo = <<>>
    /\ LET f == frames[Len(frames)]
           fs == SubSeq(frames, 1, Len(frames) - 1)
       IN  CASE f.t = "Object" ->
                  /\ frames' = Append(fs, RetFrame(Returns(Object(f.dst), Nil)))
                  /\ heap' = heap
             [] f.t = "Array" ->
                  /\ frames' = Append(fs, RetFrame(Returns(Array(f.acc), Nil)))
                  /\ heap' = heap
             [] f.t = "concatenation" ->
                  \E ord \in [MapsOf(heap, concatenation(f.acc)) -> KeyOrders] :
                      LET r == resolveConcatenation(heap, f.acc, ord)
                      IN  /\ frames' = Append(fs, RetFrame(r.res))
                          /\ heap' = r.heap
    /\ UNCHANGED <<configs, inputs, call, pc, last>>

\* The outermost call returns to the caller of the resolution.
resolveDone ==
    /\ pc = "resolving"
    /\ Len(frames) = 1
    /\ frames[Len(frames)].t = "ret"
    /\ pc' = "done"
    /\ last' = [op |-> "resolve", ret |-> frames[Len(frames)].res]
    /\ frames' = <<>>
    /\ UNCHANGED <<heap, configs, inputs, call>>

NextResolve ==
    \/ resolveStart
    \/ resolveEval
    \/ resolveDescend
    \/ resolveReturn
    \/ resolveFinish
    \/ resolveDone

\* The paths substitutions refer to.
SubPaths == { kb, ka \o <<dotToken>> \o kb }

RECURSIVE DocsWithin(_, _)
\* The Object literals over ka, kb and leaves with at most n entries, each
\* built from values that fit in what the other leaves of the n.
DocsWithin(leaves, n) ==
    LET Vals(m) == IF m < 0 THEN {} ELSE leaves \cup DocsWithin(leaves, m)
    IN  IF n < 0 THEN {}
        ELSE { ObjectLit(EmptyMap) }
             \cup { ObjectLit(k :> v) : k \in Keys, v \in Vals(n - 1) }
             \cup UNION { { ObjectLit(ka :> v @@ kb :> w) :
                              v \in Vals(i), w \in Vals(n - 2 - i) } : i \in 0..(n - 2) }

\* The documents: an Integer, required and optional substitutions of the
\* paths and an Array with a substitution as leaves.
ResolveDocs ==
    DocsWithin({ Integer(1), Array(<<Substitution(kb, TRUE), Integer(1)>>) }
               \cup { Substitution(p, o) : p \in SubPaths, o \in BOOLEAN },
               MaxDocEntries)

\* A resolution is one synchronous call: it runs until it returns.
SpecResolve == InitDocs(ResolveDocs) /\ [][NextResolve]_vars /\ WF_vars(NextResolve)

-----------------------------------------------------------------------------
(* Resolution: C14, C15 *)

\* The document as it was given: resolution writes into new maps only.
Doc == TreeOf(heap, root)

\* Where a path leads in the document.
Lookup(path) == Nav(Doc, SegmentsOf(path))
FoundAt(path) == Lookup(path).kind = "terminal" /\ Lookup(path).val # Nil
NotFoundAt(path) ==
    \/ Lookup(path).kind = "missing"
    \/ Lookup(path).kind = "terminal" /\ Lookup(path).val = Nil

RECURSIVE SubsIn(_)
\* The Substitution nodes of a tree.
SubsIn(t) ==
    CASE t = Nil -> {}
      [] t # Nil /\ t.kind = "Substitution" -> {t}
      [] t # Nil /\ t.kind = "ObjectLit" ->
            UNION { SubsIn(t.fields[k]) : k \in DOMAIN t.fields }
      [] t # Nil /\ t.kind \in {"Array", "concatenation"} ->
            UNION { SubsIn(t.elems[i]) : i \in DOMAIN t.elems }
      [] OTHER -> {}

\* A substitution of the document goes through a value that is not an Object.
BlockedDoc == \E s \in SubsIn(Doc) : Lookup(s.path).kind = "blocked"

\* The paths the value at path refers to.
DependsOn(path) ==
    IF FoundAt(path) THEN { s.path : s \in SubsIn(Lookup(path).val) } ELSE {}

RECURSIVE DependsOnAll(_)
\* The paths S depends on, through any number of substitutions.
DependsOnAll(S) ==
    LET more == S \cup UNION { DependsOn(p) : p \in S }
    IN  IF more = S THEN S ELSE DependsOnAll(more)

\* The path depends on itself.
OnCycle(path) == path \in DependsOnAll(DependsOn(path))
CyclicPaths == { s.path : s \in { x \in SubsIn(Doc) : OnCycle(x.path) } }
CyclicDoc == CyclicPaths # {}

\* The paths of the required substitutions of the document that are not found.
UnresolvedPaths ==
    { s.path : s \in { x \in SubsIn(Doc) : ~ x.optional /\ NotFoundAt(x.path) } }

RECURSIVE AbsentNode(_)
\* The node resolves to absence: an optional substitution that is not found,
\* or a substitution of a path whose value resolves to absence.
AbsentNode(d) ==
    /\ d.kind = "Substitution"
    /\ IF FoundAt(d.path) THEN AbsentNode(Lookup(d.path).val) ELSE d.optional

RECURSIVE IsResolutionOf(_, _)
\* r is the node d of a document without cycles, resolved: a substitution is
\* the resolved value at its path, and a key or an element that resolves to
\* absence is left out.
IsResolutionOf(r, d) ==
    CASE d.kind = "Substitution" -> IsResolutionOf(r, Lookup(d.path).val)
      [] d.kind = "ObjectLit" ->
            /\ r.kind = "ObjectLit"
            /\ DOMAIN r.fields = { k \in DOMAIN d.fields : ~ AbsentNode(d.fields[k]) }
            /\ \A k \in DOMAIN r.fields : IsResolutionOf(r.fields[k], d.fields[k])
      [] d.kind = "Array" ->
            LET kept == SelectSeq(d.elems, LAMBDA e : ~ AbsentNode(e))
            IN  /\ r.kind = "Array"
                /\ Len(r.elems) = Len(kept)
                /\ \A i \in DOMAIN kept : IsResolutionOf(r.elems[i], kept[i])
      [] OTHER -> r = d

\* C14: when no required substitution lacks its value (and none depends on
\* itself), resolution returns the document with every substitution replaced
\* by the resolved value at its path and every key and element that resolves
\* to absence left out, no reference node remaining; when a required
\* substitution is not found, resolution returns an error, the
\* unresolved-substitution error of such a path unless a cycle is met first.
C14_SubstitutionResolution ==
    (Did("resolve") /\ ~ BlockedDoc) =>
        /\ ~ last.ret.panic
        /\ (last.ret.err = Nil) <=> (UnresolvedPaths = {} /\ ~ CyclicDoc)
        /\ last.ret.err = Nil =>
              /\ SubsIn(TreeOf(heap, last.ret.val)) = {}
              /\ IsResolutionOf(TreeOf(heap, last.ret.val), Doc)
        /\ (UnresolvedPaths # {} /\ ~ CyclicDoc) =>
              \E p \in UnresolvedPaths : last.ret = Returns(Nil, UnresolvedSubstitution(p))

kab == ka \o <<dotToken>> \o kb

\* A substitution has been replaced by the value two substitutions away.
C14_Witness ==
    /\ Did("resolve")
    /\ Doc = ObjectLit(ka :> ObjectLit(ka :> Substitution(kab, FALSE)
                                        @@ kb :> Substitution(kb, FALSE))
                        @@ kb :> Integer(1))
    /\ last.ret.err = Nil
    /\ TreeOf(heap, last.ret.val) =
          ObjectLit(ka :> ObjectLit(ka :> Integer(1) @@ kb :> Integer(1))
                    @@ kb :> Integer(1))

\* An optional substitution that is not found has left its key and its
\* element out.
C14_WitnessOptional ==
    /\ Did("resolve")
    /\ Doc = ObjectLit(ka :> ObjectLit(ka :> Array(<<Substitution(kb, TRUE), Integer(1)>>)
                                        @@ kb :> Substitution(kb, TRUE)))
    /\ last.ret.err = Nil
    /\ TreeOf(heap, last.ret.val) = ObjectLit(ka :> ObjectLit(ka :> Array(<<Integer(1)>>)))

\* A required substitution that is not found has failed the resolution.
C14_WitnessUnresolved ==
    /\ Did("resolve")
    /\ Doc = ObjectLit(ka :> Substitution(kb, FALSE))
    /\ last.ret = Returns(Nil, UnresolvedSubstitution(kb))

\* C15: the resolution of every document returns; a document with a
\* substitution whose path depends on itself returns an error, the
\* cyclic-substitution error of such a path unless a required substitution
\* that is not found is met first, and no other document returns it.
C15_ResolutionTerminates ==
    /\ <>(pc = "done")
    /\ [](( Did("resolve") /\ ~ BlockedDoc ) =>
            /\ CyclicDoc => ~ last.ret.panic /\ last.ret.err # Nil
            /\ (CyclicDoc /\ UnresolvedPaths = {}) =>
                  \E p \in CyclicPaths : last.ret = Returns(Nil, CyclicSubstitution(p))
            /\ (\E p \in SubPaths : last.ret = Returns(Nil, CyclicSubstitution(p)))
                  => CyclicDoc)

\* A cycle of two substitutions has been met and reported.
C15_Witness ==
    /\ Did("resolve")
    /\ Doc = ObjectLit(ka :> ObjectLit(kb :> Substitution(kb, FALSE))
                        @@ kb :> Substitution(kab, FALSE))
    /\ last.ret = Returns(Nil, CyclicSubstitution(kb))

\* A substitution of its own path has been reported.
C15_WitnessSelf ==
    /\ Did("resolve")
    /\ Doc = ObjectLit(kb :> Substitution(kb, TRUE))
    /\ last.ret = Returns(Nil, CyclicSubstitution(kb))

-----------------------------------------------------------------------------
(* Resolution of concatenations: C16 *)

\* Documents with a concatenation under a, and under b nothing, a String or
\* an Object for the substitution among the fragments to find.
ConcatDocs ==
    LET fragments ==
            { String(<<"x">>), String(<<"\"", "x", "\"">>), Integer(1),
              ObjectLit(ka :> Integer(1)),
              ObjectLit(ka :> Integer(2) @@ kb :> Integer(3)),
              ObjectLit(kb :> ObjectLit(ka :> Integer(1))),
              Substitution(kb, TRUE) }
    IN  { ObjectLit(ka :> concatenation(frs)) :
            frs \in SeqsUpTo(fragments, MaxElems) \ {<<>>} }
        \cup { ObjectLit(ka :> concatenation(frs) @@ kb :> v) :
                 frs \in SeqsUpTo(fragments, MaxElems) \ {<<>>},
                 v \in { String(<<"y">>), ObjectLit(kb :> ObjectLit(kb :> Integer(4))) } }

SpecConcat == InitDocs(ConcatDocs) /\ [][NextResolve]_vars /\ WF_vars(NextResolve)

\* The fragments of the concatenation of the document, resolved: the
\* substitution is the value under b, nil when there is none.
ResolvedFragments ==
    LET frs == Doc.fields[ka].elems
    IN  [i \in DOMAIN frs |->
            IF frs[i].kind = "Substitution"
            THEN (IF kb \in DOMAIN Doc.fields THEN Doc.fields[kb] ELSE Nil)
            ELSE frs[i]]

RECURSIVE MergeLit(_, _)
\* The tree of the Object o merged over the Object f: o's value wins, two
\* Objects under one key are merged in turn.
MergeLit(o, f) ==
    ObjectLit([k \in DOMAIN o.fields \cup DOMAIN f.fields |->
                  IF k \notin DOMAIN o.fields THEN f.fields[k]
                  ELSE IF k \in DOMAIN f.fields /\ IsLit(o.fields[k]) /\ IsLit(f.fields[k])
                       THEN MergeLit(o.fields[k], f.fields[k])
                  ELSE o.fields[k]])

RECURSIVE MergedLeftToRight(_)
\* The Objects merged from left to right: each over what is left of it.
MergedLeftToRight(os) ==
    IF Len(os) = 1 THEN os[1]
    ELSE MergedLeftToRight(<<MergeLit(os[2], os[1])>> \o SubSeq(os, 3, Len(os)))

\* C16: a concatenation with an Object among its resolved fragments resolves
\* to the merge of the fragments from left to right, the later winning, when
\* all of them are Objects, and to the invalid-concatenation error when one
\* is not; a concatenation with no Object among them resolves to the String
\* of their string forms, without the quotes around each, joined in order.
C16_ConcatenationResolution ==
    Did("resolve") =>
        LET present == SelectSeq(ResolvedFragments, LAMBDA v : v # Nil)
            anyObject == \E i \in DOMAIN present : IsLit(present[i])
            allObjects == \A i \in DOMAIN present : IsLit(present[i])
        IN  /\ ~ last.ret.panic
            /\ (anyObject /\ ~ allObjects) => last.ret = Returns(Nil, InvalidConcatenation)
            /\ (anyObject /\ allObjects) =>
                  /\ last.ret.err = Nil
                  /\ TreeOf(heap, last.ret.val).fields[ka] = MergedLeftToRight(present)
            /\ ~ anyObject =>
                  /\ last.ret.err = Nil
                  /\ TreeOf(heap, last.ret.val).fields[ka] =
                        String(Flatten([i \in DOMAIN present |->
                                           WithoutOuterQuotes(ScalarString(present[i]))]))

\* Three Objects, one of them found by a substitution, have been merged: the
\* last has replaced what the first two had under b.
C16_Witness ==
    /\ Did("resolve")
    /\ Doc.fields[ka] = concatenation(<<ObjectLit(ka :> Integer(2) @@ kb :> Integer(3)),
                                        ObjectLit(ka :> Integer(1)),
                                        Substitution(kb, TRUE)>>)
    /\ kb \in DOMAIN Doc.fields /\ IsLit(Doc.fields[kb])
    /\ last.ret.err = Nil
    /\ TreeOf(heap, last.ret.val).fields[ka] =
          ObjectLit(ka :> Integer(1) @@ kb :> ObjectLit(kb :> Integer(4)))

\* An Object after a String has been refused.
C16_WitnessInvalid ==
    /\ Did("resolve")
    /\ Doc.fields[ka] = concatenation(<<String(<<"x">>), ObjectLit(ka :> Integer(1))>>)
    /\ last.ret = Returns(Nil, InvalidConcatenation)

\* Fragments with no Object among them have been joined into one String.
C16_WitnessString ==
    /\ Did("resolve")
    /\ Doc.fields[ka] = concatenation(<<String(<<quote, "x", quote>>), Integer(1),
                                        Substitution(kb, TRUE)>>)
    /\ kb \in DOMAIN Doc.fields /\ Doc.fields[kb] = String(<<"y">>)
    /\ last.ret.err = Nil
    /\ TreeOf(heap, last.ret.val).fields[ka] = String(<<"x", "1", "y">>)

-----------------------------------------------------------------------------
(* The copy specification: an Object is copied, then the client assigns to  *)
(* or deletes keys of the maps it holds.                                    *)

\* The trees copied: Objects nested in Objects, and an Array holding one.
CopyRoots ==
    DocsWithin({ Integer(1), Array(<<ObjectLit(ka :> Integer(1))>>) }, MaxCopyEntries)

\* configs[2] := configs[1].root.copy()
DoCopy ==
    /\ pc = "idle"
    /\ IsObject(root)
    /\ LET r == copy(heap, root.ref)
       IN  /\ heap' = r.heap
           /\ configs' = Append(configs, Object(r.ref))
    /\ pc' = "copied"
    /\ last' = [op |-> "copy", n |-> 0]
    /\ UNCHANGED <<inputs, call, frames>>

\* m[key] = Int(9), a value no tree holds before, for any map m the client
\* can reach.
DoAssign ==
    /\ pc = "copied"
    /\ last.n < MaxMutations
    /\ \E id \in 1..Len(heap), key \in Keys :
          /\ heap' = [heap EXCEPT ![id] = Put(@, key, Integer(9))]
          /\ last' = [op |-> "assign", id |-> id, key |-> key, n |-> last.n + 1]
    /\ UNCHANGED <<configs, inputs, call, pc, frames>>

\* delete(m, key)
DoDelete ==
    /\ pc = "copied"
    /\ last.n < MaxMutations
    /\ \E id \in 1..Len(heap) :
          \E key \in DOMAIN heap[id] :
              /\ heap' = [heap EXCEPT ![id] = [k \in DOMAIN @ \ {key} |-> @[k]]]
              /\ last' = [op |-> "delete", id |-> id, key |-> key, n |-> last.n + 1]
    /\ UNCHANGED <<configs, inputs, call, pc, frames>>

NextCopy ==
    \/ DoCopy
    \/ DoAssign
    \/ DoDelete

SpecCopy == InitDocs(CopyRoots) /\ [][NextCopy]_vars

-----------------------------------------------------------------------------
(* Copies and aliases: C17, C18 *)

\* The value an assignment stores.
Stored == Integer(9)

RECURSIVE Nested(_, _)
\* The Object with map id and the Objects nested in it under keys, at every
\* depth; not those an Array holds.
Nested(h, id) ==
    {id} \cup UNION { Nested(h, h[id][k].ref) :
                        k \in { x \in DOMAIN h[id] : IsObject(h[id][x]) } }

RECURSIVE IsFreshCopy(_, _, _)
\* The Object c has the keys of the Object o; under a key where o holds an
\* Object c holds another one that is in turn such a copy, under any other
\* key c holds the very value o holds.
IsFreshCopy(h, c, o) ==
    /\ c # o
    /\ DOMAIN h[c] = DOMAIN h[o]
    /\ \A k \in DOMAIN h[o] :
          IF IsObject(h[o][k])
          THEN IsObject(h[c][k]) /\ IsFreshCopy(h, h[c][k].ref, h[o][k].ref)
          ELSE h[c][k] = h[o][k]

\* C17: the copy of an Object is equal to it; the Objects nested in the copy
\* under keys are new at every depth and the values that are not Objects are
\* the original's own, the Objects an Array holds with them; an assignment
\* or a deletion in the copy or in an Object nested in it leaves the
\* original as it was, and one in the original leaves the copy as it was.
C17_CopyIsFresh ==
    [][ /\ last'.op = "copy" =>
              /\ TreeOf(heap', configs'[2]) = TreeOf(heap, configs[1])
              /\ Nested(heap', configs'[2].ref) \cap (1..Len(heap)) = {}
              /\ IsFreshCopy(heap', configs'[2].ref, configs[1].ref)
              /\ \A id \in 1..Len(heap) : heap'[id] = heap[id]
        /\ last'.op \in {"assign", "delete"} =>
              /\ last'.id \in Nested(heap, configs[2].ref) =>
                    TreeOf(heap', configs[1]) = TreeOf(heap, configs[1])
              /\ last'.id \in Nested(heap, configs[1].ref) =>
                    TreeOf(heap', configs[2]) = TreeOf(heap, configs[2]) ]_vars

\* A key has been assigned in an Object two levels below the copy, and the
\* original does not show it.
C17_Witness ==
    /\ pc = "copied"
    /\ last.op = "assign"
    /\ \E k1, k2 \in Keys :
          /\ k1 \in DOMAIN heap[configs[2].ref]
          /\ IsObject(heap[configs[2].ref][k1])
          /\ k2 \in DOMAIN heap[heap[configs[2].ref][k1].ref]
          /\ heap[heap[configs[2].ref][k1].ref][k2] = Object(last.id)
    /\ TreeOf(heap, configs[2]) # TreeOf(heap, configs[1])
    /\ \A id \in Nested(heap, configs[1].ref) :
          \A k \in DOMAIN heap[id] : heap[id][k] # Stored

\* A key has been assigned in an Object that an Array of the copy holds, and
\* the original shows it too: the Array and the Object are shared.
C17_WitnessShared ==
    /\ pc = "copied"
    /\ last.op = "assign"
    /\ last.id \notin Nested(heap, configs[1].ref) \cup Nested(heap, configs[2].ref)
    /\ \E k \in DOMAIN heap[configs[2].ref] :
          /\ heap[configs[2].ref][k] = Array(<<Object(last.id)>>)
          /\ heap[configs[1].ref][k] = Array(<<Object(last.id)>>)
    /\ heap[last.id][last.key] = Stored

\* C18: after WithFallback on two Object roots, no Object that can be
\* reached from the result, under keys or in Arrays, is an Object that can be
\* reached from the receiver or from the fallback.
C18_ResultAliasesNoInput ==
    ( /\ last.op = "WithFallback"
      /\ IsObject(configs[last.c])
      /\ IsObject(configs[last.fallback])
      /\ last.result = Len(configs) ) =>
        MapsOf(heap, configs[last.result])
            \cap (MapsOf(heap, configs[last.c]) \cup MapsOf(heap, configs[last.fallback]))
        = {}

=============================================================================
